---- MODULE Spec2Model ----
(***************************************************************************)
(* Model of the government-ID classification and scoring engine:           *)
(* the identifier matchers, the keyword scorer and classify_and_verify.     *)
(* Text is a sequence of one-character strings; regular expressions are     *)
(* matched by a backtracking matcher; scores are IEEE-754 binary64 values   *)
(* (Python float), kept exactly as mantissa * 2^exponent.                   *)
(***************************************************************************)
EXTENDS Integers, Sequences, FiniteSets, TLC

(***************************************************************************)
(* Natural numbers of arbitrary size: little-endian sequences of limbs in   *)
(* base 2^15, without leading zero limbs; zero is the empty sequence.       *)
(***************************************************************************)
Limb == 32768

BDigit(x, i) == IF i <= Len(x) THEN x[i] ELSE 0

RECURSIVE BTrim(_)
BTrim(x) ==
  IF x = <<>> THEN x
  ELSE IF x[Len(x)] = 0 THEN BTrim(SubSeq(x, 1, Len(x) - 1)) ELSE x

RECURSIVE BAddFrom(_, _, _, _)
BAddFrom(x, y, i, c) ==
  IF i > Len(x) /\ i > Len(y)
  THEN (IF c = 0 THEN <<>> ELSE <<c>>)
  ELSE LET s == BDigit(x, i) + BDigit(y, i) + c
       IN <<s % Limb>> \o BAddFrom(x, y, i + 1, s \div Limb)

BAdd(x, y) == BAddFrom(x, y, 1, 0)

RECURSIVE BMulSmallFrom(_, _, _, _)
BMulSmallFrom(x, k, i, c) ==
  IF i > Len(x)
  THEN (IF c = 0 THEN <<>> ELSE <<c>>)
  ELSE LET s == x[i] * k + c
       IN <<s % Limb>> \o BMulSmallFrom(x, k, i + 1, s \div Limb)

\* x * k for 0 <= k < Limb
BMulSmall(x, k) == IF k = 0 THEN <<>> ELSE BMulSmallFrom(x, k, 1, 0)

\* x * Limb^n
BShiftLimbs(x, n) == IF x = <<>> THEN x ELSE [i \in 1..n |-> 0] \o x

RECURSIVE BMulFrom(_, _, _)
BMulFrom(x, y, j) ==
  IF j > Len(y) THEN <<>>
  ELSE BAdd(BShiftLimbs(BMulSmall(x, y[j]), j - 1), BMulFrom(x, y, j + 1))

BMul(x, y) == BMulFrom(x, y, 1)

RECURSIVE BDivFrom(_, _, _, _)
BDivFrom(x, k, i, r) ==
  IF i = 0 THEN <<>>
  ELSE LET cur == r * Limb + x[i]
       IN BDivFrom(x, k, i - 1, cur % k) \o <<cur \div k>>

\* x \div k for 0 < k < Limb
BDivSmall(x, k) == BTrim(BDivFrom(x, k, Len(x), 0))

RECURSIVE BModFrom(_, _, _, _)
BModFrom(x, k, i, r) ==
  IF i = 0 THEN r ELSE BModFrom(x, k, i - 1, (r * Limb + x[i]) % k)

\* x % k for 0 < k < Limb
BModSmall(x, k) == BModFrom(x, k, Len(x), 0)

BOdd(x) == x # <<>> /\ x[1] % 2 = 1

RECURSIVE NatBits(_)
NatBits(n) == IF n = 0 THEN 0 ELSE 1 + NatBits(n \div 2)

BitLen(x) == IF x = <<>> THEN 0 ELSE (Len(x) - 1) * 15 + NatBits(x[Len(x)])

RECURSIVE Pow2(_)
Pow2(b) == IF b = 0 THEN 1 ELSE 2 * Pow2(b - 1)

\* x * 2^s
BShl(x, s) == BShiftLimbs(BMulSmall(x, Pow2(s % 15)), s \div 15)

\* x \div 2^s
BShr(x, s) ==
  IF s \div 15 >= Len(x) THEN <<>>
  ELSE BDivSmall(SubSeq(x, s \div 15 + 1, Len(x)), Pow2(s % 15))

\* x % 2^s
BLow(x, s) ==
  IF s \div 15 >= Len(x) THEN x
  ELSE BTrim(SubSeq(x, 1, s \div 15) \o <<x[s \div 15 + 1] % Pow2(s % 15)>>)

RECURSIVE BCmpFrom(_, _, _)
BCmpFrom(x, y, i) ==
  IF i = 0 THEN 0
  ELSE IF x[i] < y[i] THEN -1
  ELSE IF x[i] > y[i] THEN 1
  ELSE BCmpFrom(x, y, i - 1)

\* -1, 0 or 1 as x <, =, > y
BCmp(x, y) ==
  IF Len(x) < Len(y) THEN -1
  ELSE IF Len(x) > Len(y) THEN 1
  ELSE BCmpFrom(x, y, Len(x))

RECURSIVE BToNat(_)
BToNat(x) == IF x = <<>> THEN 0 ELSE x[1] + Limb * BToNat(Tail(x))

(***************************************************************************)
(* Python float: a non-negative binary64 value m * 2^e with a 53-bit m      *)
(* (2^52 <= m < 2^53), or zero.  Every operation rounds to nearest, ties to *)
(* even.  The scores stay in [0, 2], so subnormals, infinities and NaN do   *)
(* not arise.                                                               *)
(***************************************************************************)
MantBits == 53

FZero == [m |-> <<>>, e |-> 0]

\* (x + f) / 2^s rounded to the nearest integer, ties to even, where
\* 0 <= f < 1 and f > 0 iff stk
RoundShift(x, s, stk) ==
  IF s = 0 THEN x
  ELSE LET q == BShr(x, s)
           c == BCmp(BLow(x, s), BShl(<<1>>, s - 1))
       IN IF c > 0 \/ (c = 0 /\ (stk \/ BOdd(q))) THEN BAdd(q, <<1>>) ELSE q

\* the binary64 nearest to (x + f) * 2^e, where 0 <= f < 1 and f > 0 iff stk
FNorm(x, e, stk) ==
  IF x = <<>> THEN FZero
  ELSE LET n == BitLen(x)
       IN IF n <= MantBits
          THEN [m |-> BShl(x, MantBits - n), e |-> e - (MantBits - n)]
          ELSE LET q == RoundShift(x, n - MantBits, stk)
               IN IF BitLen(q) > MantBits
                  THEN [m |-> BDivSmall(q, 2), e |-> e + (n - MantBits) + 1]
                  ELSE [m |-> q, e |-> e + (n - MantBits)]

FMul(a, b) == FNorm(BMul(a.m, b.m), a.e + b.e, FALSE)

FAdd(a, b) ==
  IF a.m = <<>> THEN b
  ELSE IF b.m = <<>> THEN a
  ELSE LET e == IF a.e < b.e THEN a.e ELSE b.e
       IN FNorm(BAdd(BShl(a.m, a.e - e), BShl(b.m, b.e - e)), e, FALSE)

\* -1, 0 or 1 as a <, =, > b
FCmp(a, b) ==
  IF a.m = <<>> THEN (IF b.m = <<>> THEN 0 ELSE -1)
  ELSE IF b.m = <<>> THEN 1
  ELSE LET e == IF a.e < b.e THEN a.e ELSE b.e
       IN BCmp(BShl(a.m, a.e - e), BShl(b.m, b.e - e))

FLt(a, b) == FCmp(a, b) < 0
FLe(a, b) == FCmp(a, b) <= 0
FGe(a, b) == FCmp(a, b) >= 0
FGt(a, b) == FCmp(a, b) > 0

\* Python min(a, b): b only when b < a
FMin(a, b) == IF FLt(b, a) THEN b ELSE a

\* the float literal written as the decimal n/d (d a power of ten)
FLit(n, d) ==
  IF n = 0 THEN FZero
  ELSE LET num == BShl(<<n>>, 75)
       IN FNorm(BDivSmall(num, d), -75, BModSmall(num, d) # 0)

\* the integer nearest to x * 100 (ties to even): the digits of x at two decimals
Hundredths(x) ==
  IF x.m = <<>> THEN 0
  ELSE BToNat(RoundShift(BMulSmall(x.m, 100), 0 - x.e, FALSE))

\* Python round(x, 2): the float nearest to the two-decimal rounding of x
FRound2(x) == FLit(Hundredths(x), 100)

(***************************************************************************)
(* Characters and text.  A text (Python str) is a sequence of              *)
(* one-character strings.                                                   *)
(***************************************************************************)
UpperSeq == <<"A", "B", "C", "D", "E", "F", "G", "H", "I", "J", "K", "L", "M", "N", "O", "P", "Q", "R", "S", "T", "U", "V", "W", "X", "Y", "Z">>
LowerSeq == <<"a", "b", "c", "d", "e", "f", "g", "h", "i", "j", "k", "l", "m", "n", "o", "p", "q", "r", "s", "t", "u", "v", "w", "x", "y", "z">>

Upper == {UpperSeq[i] : i \in 1..26}
LowerLetters == {LowerSeq[i] : i \in 1..26}
Digits == {"0", "1", "2", "3", "4", "5", "6", "7", "8", "9"}
\* \s of the re module, within the characters used here
Whitespace == {" ", "\t", "\n", "\r"}

\* str.lower() on one character
LowerChar(c) ==
  IF c \in Upper THEN LowerSeq[CHOOSE i \in 1..26 : UpperSeq[i] = c] ELSE c

UpperChar(c) ==
  IF c \in LowerLetters THEN UpperSeq[CHOOSE i \in 1..26 : LowerSeq[i] = c] ELSE c

\* str.lower()
LowerText(t) == [i \in 1..Len(t) |-> LowerChar(t[i])] \o <<>>

\* Python `w in t` for strings
Contains(t, w) ==
  \E i \in 1..(Len(t) - Len(w) + 1) : \A j \in 1..Len(w) : t[i + j - 1] = w[j]

(***************************************************************************)
(* Regular expressions of the re module.  A pattern is a sequence of items, *)
(* each a character class with a greedy repetition count lo..hi (hi = -1:   *)
(* no upper limit); a regex is a sequence of alternative patterns, tried in *)
(* order at each start position.                                            *)
(***************************************************************************)
Rep(cls, lo, hi) == [cls |-> cls, lo |-> lo, hi |-> hi]
\* literal text
Lit(w) == [i \in 1..Len(w) |-> Rep({w[i]}, 1, 1)] \o <<>>
\* \s*
WsStar == <<Rep(Whitespace, 0, -1)>>

\* how many characters of t from position i on are in cls, at most cap
RECURSIVE Run(_, _, _, _)
Run(t, i, cls, cap) ==
  IF cap = 0 \/ i > Len(t) THEN 0
  ELSE IF t[i] \notin cls THEN 0
  ELSE 1 + Run(t, i + 1, cls, cap - 1)

\* Backtracking match of items k.. of pat against t from position i: the
\* position after the match, or 0 when there is none.  A greedy item takes
\* as many characters as it can and gives them back one at a time.
RECURSIVE MatchFrom(_, _, _, _)
RECURSIVE TryCounts(_, _, _, _, _)
MatchFrom(pat, t, i, k) ==
  IF k > Len(pat) THEN i
  ELSE IF pat[k].lo = 1 /\ pat[k].hi = 1
  THEN (IF i > Len(t) THEN 0
        ELSE IF t[i] \notin pat[k].cls THEN 0
        ELSE MatchFrom(pat, t, i + 1, k + 1))
  ELSE LET run == Run(t, i, pat[k].cls, pat[k].hi)
       IN IF run < pat[k].lo THEN 0 ELSE TryCounts(pat, t, i, k, run)

TryCounts(pat, t, i, k, n) ==
  LET r == MatchFrom(pat, t, i + n, k + 1)
  IN IF r # 0 THEN r
     ELSE IF n = pat[k].lo THEN 0
     ELSE TryCounts(pat, t, i, k, n - 1)

\* the first alternative from a on that matches at position i
RECURSIVE MatchAlts(_, _, _, _)
MatchAlts(alts, t, i, a) ==
  IF a > Len(alts) THEN 0
  ELSE LET r == MatchFrom(alts[a], t, i, 1)
       IN IF r # 0 THEN r ELSE MatchAlts(alts, t, i, a + 1)

NoMatch == [found |-> FALSE, text |-> <<>>]

\* re.search(regex, t): the leftmost match, with match.group(0) in text
Search(alts, t) ==
  IF \E i \in 1..Len(t) : MatchAlts(alts, t, i, 1) # 0
  THEN LET s == CHOOSE i \in 1..Len(t) :
                  /\ MatchAlts(alts, t, i, 1) # 0
                  /\ \A j \in 1..(i - 1) : MatchAlts(alts, t, j, 1) = 0
       IN [found |-> TRUE, text |-> SubSeq(t, s, MatchAlts(alts, t, s, 1) - 1)]
  ELSE NoMatch

\* bool(re.search(pattern, t)) for a pattern without alternatives
Found(pat, t) == \E i \in 1..Len(t) : MatchFrom(pat, t, i, 1) # 0

\* the pattern under re.IGNORECASE
IgnoreCase(pat) ==
  [k \in 1..Len(pat) |->
     Rep(pat[k].cls \cup {LowerChar(c) : c \in pat[k].cls}
                    \cup {UpperChar(c) : c \in pat[k].cls},
         pat[k].lo, pat[k].hi)] \o <<>>

(***************************************************************************)
(* Pattern library (app/services/validation_service.py).                    *)
(***************************************************************************)
AADHAAR == "aadhaar"
PAN == "pan"
DRIVING_LICENCE == "driving_license"
UNKNOWN == "unknown"
DocumentType == {AADHAAR, PAN, DRIVING_LICENCE, UNKNOWN}

VERIFIED == "verified"
REJECTED == "rejected"

\* Python None (a one-element tuple, so that it compares with text)
None == <<"None">>

\* [0-9]{4}\s?[0-9]{4}\s?[0-9]{4}
AADHAAR_PATTERN ==
  << <<Rep(Digits, 4, 4), Rep(Whitespace, 0, 1), Rep(Digits, 4, 4),
       Rep(Whitespace, 0, 1), Rep(Digits, 4, 4)>> >>

\* [A-Z]{5}[0-9]{4}: the PAN shape without its trailing letter
PAN_PATTERN_NoTrailingLetter == << <<Rep(Upper, 5, 5), Rep(Digits, 4, 4)>> >>

\* [A-Z]{5}[0-9]{4}[A-Z]
PAN_PATTERN == << <<Rep(Upper, 5, 5), Rep(Digits, 4, 4), Rep(Upper, 1, 1)>> >>

\* [-\s]?[0-9]{2}[-\s]?[0-9]{4,19}
DlNumberTail ==
  <<Rep({"-"} \cup Whitespace, 0, 1), Rep(Digits, 2, 2),
    Rep({"-"} \cup Whitespace, 0, 1), Rep(Digits, 4, 19)>>

\* (?:DL|[A-Z]{2})[-\s]?[0-9]{2}[-\s]?[0-9]{4,19}|[A-Z]{2}[0-9]{2}[0-9]{4,19}
DL_PATTERN ==
  << Lit(<<"D", "L">>) \o DlNumberTail,
     <<Rep(Upper, 2, 2)>> \o DlNumberTail,
     <<Rep(Upper, 2, 2), Rep(Digits, 2, 2), Rep(Digits, 4, 19)>> >>

\* KEYWORD_PATTERNS[DocumentType.AADHAAR]
AadhaarKeywords ==
  << Lit(<<"a", "a", "d", "h", "a", "a", "r">>),
     Lit(<<"u", "n", "i", "q", "u", "e">>) \o WsStar \o Lit(<<"i", "d", "e", "n", "t", "i", "f", "i", "c", "a", "t", "i", "o", "n">>) \o WsStar \o Lit(<<"a", "u", "t", "h", "o", "r", "i", "t", "y">>),
     Lit(<<"u", "i", "d", "a", "i">>),
     Lit(<<"g", "o", "v", "e", "r", "n", "m", "e", "n", "t">>) \o WsStar \o Lit(<<"o", "f">>) \o WsStar \o Lit(<<"i", "n", "d", "i", "a">>),
     Lit(<<"m", "e", "r", "a">>) \o WsStar \o Lit(<<"a", "a", "d", "h", "a", "a", "r">>),
     Lit(<<"d", "o", "b">>),
     Lit(<<"d", "a", "t", "e">>) \o WsStar \o Lit(<<"o", "f">>) \o WsStar \o Lit(<<"b", "i", "r", "t", "h">>),
     Lit(<<"y", "o", "b">>),
     Lit(<<"y", "e", "a", "r">>) \o WsStar \o Lit(<<"o", "f">>) \o WsStar \o Lit(<<"b", "i", "r", "t", "h">>),
     Lit(<<"b", "a", "l", "e">>),
     Lit(<<"f", "e", "m", "a", "l", "e">>),
     Lit(<<"m", "a", "l", "e">>) >>

\* KEYWORD_PATTERNS[DocumentType.PAN]
PanKeywords ==
  << Lit(<<"p", "e", "r", "m", "a", "n", "e", "n", "t">>) \o WsStar \o Lit(<<"a", "c", "c", "o", "u", "n", "t">>) \o WsStar \o Lit(<<"n", "u", "m", "b", "e", "r">>),
     Lit(<<"i", "n", "c", "o", "m", "e">>) \o WsStar \o Lit(<<"t", "a", "x">>) \o WsStar \o Lit(<<"d", "e", "p", "a", "r", "t", "m", "e", "n", "t">>),
     Lit(<<"g", "o", "v", "t">>) \o WsStar \o Lit(<<"o", "f">>) \o WsStar \o Lit(<<"i", "n", "d", "i", "a">>),
     Lit(<<"d", "a", "t", "e">>) \o WsStar \o Lit(<<"o", "f">>) \o WsStar \o Lit(<<"b", "i", "r", "t", "h">>),
     Lit(<<"f", "a", "t", "h", "e", "r", "'", "s">>) \o WsStar \o Lit(<<"n", "a", "m", "e">>) >>

\* KEYWORD_PATTERNS[DocumentType.DRIVING_LICENCE]
DlKeywords ==
  << Lit(<<"d", "r", "i", "v", "i", "n", "g">>) \o WsStar \o Lit(<<"l", "i", "c", "e", "n">>) \o <<Rep({"c", "s"}, 1, 1)>> \o Lit(<<"e">>),
     Lit(<<"d", "r", "i", "v", "i", "n", "g">>) \o WsStar \o Lit(<<"l", "i", "c", "e", "n">>) \o <<Rep({"c", "s"}, 1, 1)>>,
     Lit(<<"u", "n", "i", "o", "n">>) \o WsStar \o Lit(<<"o", "f">>) \o WsStar \o Lit(<<"i", "n", "d", "i", "a">>),
     Lit(<<"t", "r", "a", "n", "s", "p", "o", "r", "t">>) \o WsStar \o Lit(<<"d", "e", "p", "a", "r", "t", "m", "e", "n", "t">>),
     Lit(<<"v", "a", "l", "i", "d">>) \o WsStar \o Lit(<<"t", "i", "l", "l">>),
     Lit(<<"i", "s", "s", "u", "e", "d">>) \o WsStar \o Lit(<<"o", "n">>),
     Lit(<<"m", "o", "t", "o", "r">>) \o WsStar \o Lit(<<"v", "e", "h", "i", "c", "l", "e">>),
     Lit(<<"t", "r", "a", "n", "s", "p", "o", "r", "t">>),
     Lit(<<"l", "i", "c", "e", "n", "s", "e">>) \o WsStar \o Lit(<<"t", "o">>) \o WsStar \o Lit(<<"d", "r", "i", "v", "e">>),
     Lit(<<"l", "i", "c", "e", "n", "s", "e">>) \o WsStar \o Lit(<<"n", "o">>),
     Lit(<<"d", "l">>) \o WsStar \o Lit(<<"n", "o">>),
     Lit(<<"d", "l">>) \o WsStar \o Lit(<<"n", "u", "m", "b", "e", "r">>),
     Lit(<<"d", "r", "i", "v", "i", "n", "g">>),
     Lit(<<"l", "i", "c", "e", "n">>) \o <<Rep({"c", "s"}, 1, 1)>> \o Lit(<<"e">>),
     Lit(<<"v", "e", "h", "i", "c", "l", "e">>) \o WsStar \o Lit(<<"c", "l", "a", "s", "s">>),
     Lit(<<"i", "s", "s", "u", "i", "n", "g">>) \o WsStar \o Lit(<<"a", "u", "t", "h", "o", "r", "i", "t", "y">>),
     Lit(<<"r", "t", "o">>),
     Lit(<<"r", "e", "g", "i", "o", "n", "a", "l">>) \o WsStar \o Lit(<<"t", "r", "a", "n", "s", "p", "o", "r", "t">>),
     Lit(<<"m", "o", "t", "o", "r">>) \o WsStar \o Lit(<<"d", "r", "i", "v", "i", "n", "g">>) >>

\* KEYWORD_PATTERNS.get(doc_type, [])
KEYWORD_PATTERNS(doc_type) ==
  CASE doc_type = AADHAAR -> AadhaarKeywords
    [] doc_type = PAN -> PanKeywords
    [] doc_type = DRIVING_LICENCE -> DlKeywords
    [] OTHER -> <<>>

\* dl_keyword_indicators of validate_dl
dl_keyword_indicators ==
  << Lit(<<"d", "r", "i", "v", "i", "n", "g">>) \o WsStar \o Lit(<<"l", "i", "c", "e", "n">>) \o <<Rep({"c", "s"}, 1, 1)>> \o Lit(<<"e">>),
     Lit(<<"d", "r", "i", "v", "i", "n", "g">>) \o WsStar \o Lit(<<"l", "i", "c", "e", "n">>) \o <<Rep({"c", "s"}, 1, 1)>>,
     Lit(<<"m", "o", "t", "o", "r">>) \o WsStar \o Lit(<<"v", "e", "h", "i", "c", "l", "e">>),
     Lit(<<"l", "i", "c", "e", "n", "s", "e">>) \o WsStar \o Lit(<<"t", "o">>) \o WsStar \o Lit(<<"d", "r", "i", "v", "e">>),
     Lit(<<"t", "r", "a", "n", "s", "p", "o", "r", "t">>) \o WsStar \o Lit(<<"d", "e", "p", "a", "r", "t", "m", "e", "n", "t">>),
     Lit(<<"d", "l">>) \o WsStar \o Lit(<<"n", "o">>),
     Lit(<<"r", "e", "g", "i", "o", "n", "a", "l">>) \o WsStar \o Lit(<<"t", "r", "a", "n", "s", "p", "o", "r", "t">>),
     Lit(<<"m", "o", "t", "o", "r">>) \o WsStar \o Lit(<<"d", "r", "i", "v", "i", "n", "g">>),
     Lit(<<"v", "e", "h", "i", "c", "l", "e">>) \o WsStar \o Lit(<<"c", "l", "a", "s", "s">>) >>

\* the context words of validate_dl
dl_context_words ==
  << <<"d", "r", "i", "v", "i", "n", "g">>,
     <<"l", "i", "c", "e", "n", "s", "e">>,
     <<"l", "i", "c", "e", "n", "c", "e">>,
     <<"t", "r", "a", "n", "s", "p", "o", "r", "t">>,
     <<"v", "e", "h", "i", "c", "l", "e">>,
     <<"d", "l">> >>

(***************************************************************************)
(* Float literals of the source.                                            *)
(***************************************************************************)
F_0_0 == FLit(0, 10)
F_0_2 == FLit(2, 10)
F_0_4 == FLit(4, 10)
F_0_6 == FLit(6, 10)
F_0_7 == FLit(7, 10)
F_0_8 == FLit(8, 10)
F_0_85 == FLit(85, 100)
F_0_95 == FLit(95, 100)
F_0_99 == FLit(99, 100)
F_1_0 == FLit(10, 10)

(***************************************************************************)
(* Identifier matchers and keyword scorer                                   *)
(* (app/services/validation_service.py).  Each returns the Python tuple     *)
(* (matched, identifier, base_confidence).                                  *)
(***************************************************************************)
validate_aadhaar(text) ==
  LET match == Search(AADHAAR_PATTERN, text)
  IN IF match.found THEN <<TRUE, match.text, F_1_0>> ELSE <<FALSE, None, F_0_0>>

validate_pan(text) ==
  LET match == Search(PAN_PATTERN, text)
  IN IF match.found THEN <<TRUE, match.text, F_1_0>> ELSE <<FALSE, None, F_0_0>>

\* re.compile(DL_PATTERN, re.IGNORECASE)
DL_PATTERN_IGNORECASE ==
  <<IgnoreCase(DL_PATTERN[1]), IgnoreCase(DL_PATTERN[2]), IgnoreCase(DL_PATTERN[3])>>

\* len([kw for kw in dl_keyword_indicators if re.search(kw, text_lower)])
DlIndicatorHits(text_lower) ==
  Cardinality({k \in 1..Len(dl_keyword_indicators) :
                 Found(dl_keyword_indicators[k], text_lower)})

\* validate_dl without the rule for keywords alone: no number, no match
validate_dl_NumberOnly(text) ==
  LET text_lower == LowerText(text)
      keyword_found == \E k \in 1..Len(dl_keyword_indicators) :
                          Found(dl_keyword_indicators[k], text_lower)
      match == Search(DL_PATTERN_IGNORECASE, text)
  IN IF match.found
     THEN IF keyword_found THEN <<TRUE, match.text, F_0_95>>
          ELSE IF \E w \in 1..Len(dl_context_words) :
                     Contains(text_lower, dl_context_words[w])
               THEN <<TRUE, match.text, F_0_85>>
               ELSE <<TRUE, match.text, F_0_7>>
     ELSE <<FALSE, None, F_0_0>>

\* validate_dl with one indicator hit being enough for the rule for keywords
\* alone
validate_dl_SingleIndicator(text) ==
  LET text_lower == LowerText(text)
      keyword_found == \E k \in 1..Len(dl_keyword_indicators) :
                          Found(dl_keyword_indicators[k], text_lower)
      match == Search(DL_PATTERN_IGNORECASE, text)
  IN IF match.found
     THEN IF keyword_found THEN <<TRUE, match.text, F_0_95>>
          ELSE IF \E w \in 1..Len(dl_context_words) :
                     Contains(text_lower, dl_context_words[w])
               THEN <<TRUE, match.text, F_0_85>>
               ELSE <<TRUE, match.text, F_0_7>>
     ELSE IF keyword_found /\ DlIndicatorHits(text_lower) >= 1
          THEN <<TRUE, None, F_0_6>>
          ELSE <<FALSE, None, F_0_0>>

validate_dl(text) ==
  LET text_lower == LowerText(text)
      keyword_found == \E k \in 1..Len(dl_keyword_indicators) :
                          Found(dl_keyword_indicators[k], text_lower)
      match == Search(DL_PATTERN_IGNORECASE, text)
  IN IF match.found
     THEN IF keyword_found THEN <<TRUE, match.text, F_0_95>>
          ELSE IF \E w \in 1..Len(dl_context_words) :
                     Contains(text_lower, dl_context_words[w])
               THEN <<TRUE, match.text, F_0_85>>
               ELSE <<TRUE, match.text, F_0_7>>
     ELSE IF keyword_found /\ DlIndicatorHits(text_lower) >= 2
          THEN <<TRUE, None, F_0_6>>
          ELSE <<FALSE, None, F_0_0>>

\* found_keywords: how many of the patterns match text_lower
CountKeywords(patterns, text_lower) ==
  Cardinality({k \in 1..Len(patterns) : Found(patterns[k], text_lower)})

\* a score that keeps growing with the hits: 0.4 for the first, 0.2 for each
\* further one
RECURSIVE KeywordStepLinear(_)
KeywordStepLinear(found_keywords) ==
  IF found_keywords = 0 THEN F_0_0
  ELSE IF found_keywords = 1 THEN FAdd(F_0_0, F_0_4)
  ELSE FAdd(KeywordStepLinear(found_keywords - 1), F_0_2)

\* the score of calculate_scoring for found_keywords hits
KeywordStep(found_keywords) ==
  LET score1 == IF found_keywords >= 1 THEN FAdd(F_0_0, F_0_4) ELSE F_0_0
  IN IF found_keywords >= 2 THEN FAdd(score1, F_0_2) ELSE score1

calculate_scoring(text, doc_type) ==
  KeywordStep(CountKeywords(KEYWORD_PATTERNS(doc_type), LowerText(text)))

(***************************************************************************)
(* Classification and verification engine                                   *)
(* (app/services/classification_service.py).                                *)
(***************************************************************************)
\* Settings(): the default thresholds
CONFIDENCE_THRESHOLD_HIGH == F_0_85
CONFIDENCE_THRESHOLD_LOW == FLit(60, 100)
DefaultSettings ==
  [CONFIDENCE_THRESHOLD_HIGH |-> CONFIDENCE_THRESHOLD_HIGH,
   CONFIDENCE_THRESHOLD_LOW |-> CONFIDENCE_THRESHOLD_LOW]

\* the candidate list after the three matchers ran, in the order
\* Aadhaar, PAN, driving licence
Candidates(text) ==
  LET a == validate_aadhaar(text)
      p == validate_pan(text)
      d == validate_dl(text)
  IN (IF a[1] THEN << <<AADHAAR, a[2], a[3]>> >> ELSE <<>>)
     \o (IF p[1] THEN << <<PAN, p[2], p[3]>> >> ELSE <<>>)
     \o (IF d[1] THEN << <<DRIVING_LICENCE, d[2], d[3]>> >> ELSE <<>>)

\* total_score of one candidate
TotalScore(base_score, keyword_score) ==
  FAdd(FMul(base_score, F_0_6), FMul(keyword_score, F_0_4))

\* max(seq, key=...): the index of the first element with the greatest key
FirstMax(keys) ==
  CHOOSE i \in 1..Len(keys) :
    /\ \A j \in 1..Len(keys) : FLe(keys[j], keys[i])
    /\ \A j \in 1..(i - 1) : FLt(keys[j], keys[i])

\* the loop over the candidates: the total_score of each, in order
RECURSIVE TotalScores(_, _)
TotalScores(candidates, text) ==
  IF candidates = <<>> THEN <<>>
  ELSE <<TotalScore(Head(candidates)[3], calculate_scoring(text, Head(candidates)[1]))>>
       \o TotalScores(Tail(candidates), text)

\* a candidate selection that keeps the last of the candidates with the
\* greatest total_score
SelectCandidateLastMax(candidates, text) ==
  IF Len(candidates) > 1
  THEN LET totals == TotalScores(candidates, text)
       IN candidates[CHOOSE i \in 1..Len(totals) :
                       /\ \A j \in 1..Len(totals) : FLe(totals[j], totals[i])
                       /\ \A j \in (i + 1)..Len(totals) : FLt(totals[j], totals[i])]
  ELSE IF Len(candidates) = 1 THEN candidates[1]
  ELSE <<UNKNOWN, None, F_0_0>>

\* a candidate selection that takes the type and the score of the best
\* candidate and the identifier of the first one
SelectCandidateFirstId(candidates, text) ==
  IF Len(candidates) > 1
  THEN LET best == candidates[FirstMax(TotalScores(candidates, text))]
       IN <<best[1], candidates[1][2], best[3]>>
  ELSE IF Len(candidates) = 1 THEN candidates[1]
  ELSE <<UNKNOWN, None, F_0_0>>

\* detected_type, id_number, base_confidence after the candidate selection
SelectCandidate(candidates, text) ==
  IF Len(candidates) > 1
  THEN candidates[FirstMax(TotalScores(candidates, text))]
  ELSE IF Len(candidates) = 1 THEN candidates[1]
  ELSE <<UNKNOWN, None, F_0_0>>

FallbackOrder == <<AADHAAR, PAN, DRIVING_LICENCE>>

\* the keyword fallback adopting the best type even at a score of 0
KeywordFallbackAdoptsZero(sel, text) ==
  IF sel[1] = UNKNOWN
  THEN LET scores == <<calculate_scoring(text, AADHAAR),
                       calculate_scoring(text, PAN),
                       calculate_scoring(text, DRIVING_LICENCE)>>
           best == FirstMax(scores)
       IN IF FGe(scores[best], F_0_0)
          THEN <<FallbackOrder[best], sel[2], F_0_0>>
          ELSE sel
  ELSE sel

\* a keyword fallback that keeps the last of the types with the greatest
\* keyword score
KeywordFallbackLastMax(sel, text) ==
  IF sel[1] = UNKNOWN
  THEN LET scores == <<calculate_scoring(text, AADHAAR),
                       calculate_scoring(text, PAN),
                       calculate_scoring(text, DRIVING_LICENCE)>>
           best == CHOOSE i \in 1..3 :
                     /\ \A j \in 1..3 : FLe(scores[j], scores[i])
                     /\ \A j \in (i + 1)..3 : FLt(scores[j], scores[i])
       IN IF FGt(scores[best], F_0_0)
          THEN <<FallbackOrder[best], sel[2], F_0_0>>
          ELSE sel
  ELSE sel

\* the keyword fallback, applied when detected_type is still UNKNOWN
KeywordFallback(sel, text) ==
  IF sel[1] = UNKNOWN
  THEN LET scores == <<calculate_scoring(text, AADHAAR),
                       calculate_scoring(text, PAN),
                       calculate_scoring(text, DRIVING_LICENCE)>>
           best == FirstMax(scores)
       IN IF FGt(scores[best], F_0_0)
          THEN <<FallbackOrder[best], sel[2], F_0_0>>
          ELSE sel
  ELSE sel

\* the blend and the boost without the ceiling of 0.99
BlendScoreUncapped(base_confidence, keyword_score) ==
  LET blended == FAdd(FMul(base_confidence, F_0_6), keyword_score)
  IN IF FGe(base_confidence, F_0_8) /\ FGt(keyword_score, F_0_0)
     THEN FAdd(blended, F_0_2)
     ELSE blended

\* the blend with the boost given to every base_confidence, whenever a
\* keyword matches
BlendScoreBoostAnyBase(base_confidence, keyword_score) ==
  LET blended == FAdd(FMul(base_confidence, F_0_6), keyword_score)
      boosted == IF FGt(keyword_score, F_0_0)
                 THEN FMin(FAdd(blended, F_0_2), F_0_99)
                 ELSE blended
  IN FMin(boosted, F_0_99)

\* final_score of a detected type
BlendScore(base_confidence, keyword_score) ==
  LET blended == FAdd(FMul(base_confidence, F_0_6), keyword_score)
      boosted == IF FGe(base_confidence, F_0_8) /\ FGt(keyword_score, F_0_0)
                 THEN FMin(FAdd(blended, F_0_2), F_0_99)
                 ELSE blended
  IN FMin(boosted, F_0_99)

\* keyword_score as recomputed for the final detected type
FinalKeywordScore(detected_type, text) ==
  IF detected_type # UNKNOWN THEN calculate_scoring(text, detected_type) ELSE F_0_0

\* the final score computed by the weights of the candidate selection
\* (keywords at 40%, no boost)
FinalScoreAsTotal(detected_type, base_confidence, keyword_score) ==
  IF detected_type # UNKNOWN
  THEN FMin(TotalScore(base_confidence, keyword_score), F_0_99)
  ELSE F_0_0

FinalScore(detected_type, base_confidence, keyword_score) ==
  IF detected_type # UNKNOWN THEN BlendScore(base_confidence, keyword_score) ELSE F_0_0

\* extracted_fields: a dict with at most the key id_number
ExtractedFields(id_number) ==
  IF id_number # None /\ id_number # <<>>
  THEN [id_number |-> id_number]
  ELSE <<>>

DigitChars == <<"0", "1", "2", "3", "4", "5", "6", "7", "8", "9">>

RECURSIVE NatStr(_)
NatStr(n) ==
  IF n < 10 THEN <<DigitChars[n + 1]>>
  ELSE NatStr(n \div 10) \o <<DigitChars[(n % 10) + 1]>>

\* repr() of a float that round() returned: the shortest decimal that reads
\* back as the same float, with at least one decimal
ReprRounded(x) ==
  LET h == Hundredths(x)
  IN NatStr(h \div 100) \o <<".", DigitChars[((h \div 10) % 10) + 1]>>
     \o (IF FLit(h - (h % 10), 100) = x THEN <<>> ELSE <<DigitChars[(h % 10) + 1]>>)

UnknownReason ==
  <<"Could not identify document type. No supported ID keywords or patterns found.">>

\* the f-string of the low-confidence rejection, as its parts
LowReason(final_score, detected_type) ==
  <<"Confidence score (", ReprRounded(FRound2(final_score)), ") too low for ",
    detected_type, ". Validation failed.">>

\* a decision that rejects a low score without giving the reason
DecideWithoutReason(detected_type, final_score, settings) ==
  IF detected_type = UNKNOWN THEN <<REJECTED, UnknownReason>>
  ELSE IF FGe(final_score, settings.CONFIDENCE_THRESHOLD_HIGH) THEN <<VERIFIED, None>>
  ELSE IF FGe(final_score, settings.CONFIDENCE_THRESHOLD_LOW) THEN <<VERIFIED, None>>
  ELSE <<REJECTED, None>>

\* a decision that verifies only at CONFIDENCE_THRESHOLD_HIGH and above
DecideHighOnly(detected_type, final_score, settings) ==
  IF detected_type = UNKNOWN THEN <<REJECTED, UnknownReason>>
  ELSE IF FGe(final_score, settings.CONFIDENCE_THRESHOLD_HIGH) THEN <<VERIFIED, None>>
  ELSE <<REJECTED, LowReason(final_score, detected_type)>>

\* status and reason
Decide(detected_type, final_score, settings) ==
  IF detected_type = UNKNOWN THEN <<REJECTED, UnknownReason>>
  ELSE IF FGe(final_score, settings.CONFIDENCE_THRESHOLD_HIGH) THEN <<VERIFIED, None>>
  ELSE IF FGe(final_score, settings.CONFIDENCE_THRESHOLD_LOW) THEN <<VERIFIED, None>>
  ELSE <<REJECTED, LowReason(final_score, detected_type)>>

\* VerificationResponse(...): pydantic rejects a confidence_score outside [0, 1]
VerificationResponse(status, detected_document_type, confidence_score, failure_reason, extracted_fields, raw_ocr_text) ==
  IF FGe(confidence_score, F_0_0) /\ FLe(confidence_score, F_1_0)
  THEN [raised |-> None,
        status |-> status,
        detected_document_type |-> detected_document_type,
        confidence_score |-> confidence_score,
        failure_reason |-> failure_reason,
        extracted_fields |-> extracted_fields,
        raw_ocr_text |-> raw_ocr_text]
  ELSE [raised |-> <<"ValidationError">>]

\* the local variables of classify_and_verify when it builds the response,
\* given the selected candidate sel, the scores and the decision
LocalsAtReturn(sel, keyword_score, final_score, decision) ==
  [detected_type |-> sel[1],
   id_number |-> sel[2],
   base_confidence |-> sel[3],
   keyword_score |-> keyword_score,
   final_score |-> final_score,
   status |-> decision[1],
   reason |-> decision[2]]

\* ... after the final score is computed: status and reason follow
LocalsAfterScore(sel, keyword_score, final_score, settings) ==
  LocalsAtReturn(sel, keyword_score, final_score, Decide(sel[1], final_score, settings))

\* ... after the keyword score is recomputed: the final score follows
LocalsAfterKeywords(sel, keyword_score, settings) ==
  LocalsAfterScore(sel, keyword_score, FinalScore(sel[1], sel[3], keyword_score), settings)

\* ... after the candidate selection and the keyword fallback
LocalsAfterSelection(sel, text, settings) ==
  LocalsAfterKeywords(sel, FinalKeywordScore(sel[1], text), settings)

\* ... after the three matchers ran
LocalsAfterMatchers(candidates, text, settings) ==
  [candidates |-> candidates]
    @@ LocalsAfterSelection(KeywordFallback(SelectCandidate(candidates, text), text),
                            text, settings)

ClassifyLocals(text, settings) == LocalsAfterMatchers(Candidates(text), text, settings)

\* the return statement
Respond(l, text) ==
  VerificationResponse(l.status, l.detected_type, FRound2(l.final_score),
                       l.reason, ExtractedFields(l.id_number), text)

classify_and_verify(text, settings) == Respond(ClassifyLocals(text, settings), text)

(***************************************************************************)
(* The second copy of the engine (services/ocr-service/app/services).  Its  *)
(* Aadhaar and PAN matchers and Aadhaar and PAN keyword lists are the same  *)
(* as above; its driving-licence matcher, its driving-licence keywords and  *)
(* its candidate selection differ.                                          *)
(***************************************************************************)
\* [A-Z]{2}[-\s]?[0-9]{2}[-\s]?[0-9]{4,19}
Svc_DL_PATTERN == << <<Rep(Upper, 2, 2)>> \o DlNumberTail >>

\* KEYWORD_PATTERNS[DocumentType.DRIVING_LICENCE]
SvcDlKeywords ==
  << Lit(<<"d", "r", "i", "v", "i", "n", "g">>) \o WsStar \o Lit(<<"l", "i", "c", "e", "n", "c", "e">>),
     Lit(<<"d", "r", "i", "v", "i", "n", "g">>) \o WsStar \o Lit(<<"l", "i", "c", "e", "n", "s", "e">>),
     Lit(<<"u", "n", "i", "o", "n">>) \o WsStar \o Lit(<<"o", "f">>) \o WsStar \o Lit(<<"i", "n", "d", "i", "a">>),
     Lit(<<"t", "r", "a", "n", "s", "p", "o", "r", "t">>) \o WsStar \o Lit(<<"d", "e", "p", "a", "r", "t", "m", "e", "n", "t">>),
     Lit(<<"v", "a", "l", "i", "d">>) \o WsStar \o Lit(<<"t", "i", "l", "l">>),
     Lit(<<"i", "s", "s", "u", "e", "d">>) \o WsStar \o Lit(<<"o", "n">>) >>

Svc_KEYWORD_PATTERNS(doc_type) ==
  CASE doc_type = AADHAAR -> AadhaarKeywords
    [] doc_type = PAN -> PanKeywords
    [] doc_type = DRIVING_LICENCE -> SvcDlKeywords
    [] OTHER -> <<>>

Svc_validate_dl(text) ==
  LET match == Search(Svc_DL_PATTERN, text)
  IN IF match.found
     THEN IF \/ Contains(text, <<"D", "L">>)
             \/ Contains(text, <<"L", "i", "c", "e", "n", "c", "e", "s">>)
             \/ Contains(text, <<"D", "r", "i", "v", "i", "n", "g">>)
          THEN <<TRUE, match.text, F_0_8>>
          ELSE <<TRUE, match.text, F_0_6>>
     ELSE <<FALSE, None, F_0_0>>

Svc_calculate_scoring(text, doc_type) ==
  KeywordStep(CountKeywords(Svc_KEYWORD_PATTERNS(doc_type), LowerText(text)))

\* the matchers in sequence: a later one runs only while the type is UNKNOWN
SvcSelect(text) ==
  LET a == validate_aadhaar(text)
  IN IF a[1] THEN <<AADHAAR, a[2], a[3]>>
     ELSE LET p == validate_pan(text)
          IN IF p[1] THEN <<PAN, p[2], p[3]>>
             ELSE LET d == Svc_validate_dl(text)
                  IN IF d[1] THEN <<DRIVING_LICENCE, d[2], d[3]>>
                     ELSE <<UNKNOWN, None, F_0_0>>

SvcKeywordFallback(sel, text) ==
  IF sel[1] = UNKNOWN
  THEN LET scores == <<Svc_calculate_scoring(text, AADHAAR),
                       Svc_calculate_scoring(text, PAN),
                       Svc_calculate_scoring(text, DRIVING_LICENCE)>>
           best == FirstMax(scores)
       IN IF FGt(scores[best], F_0_0)
          THEN <<FallbackOrder[best], sel[2], F_0_0>>
          ELSE sel
  ELSE sel

SvcFinalKeywordScore(detected_type, text) ==
  IF detected_type # UNKNOWN THEN Svc_calculate_scoring(text, detected_type) ELSE F_0_0

SvcLocalsAfterSelection(sel, text, settings) ==
  LocalsAfterKeywords(sel, SvcFinalKeywordScore(sel[1], text), settings)

SvcClassifyLocals(text, settings) ==
  SvcLocalsAfterSelection(SvcKeywordFallback(SvcSelect(text), text), text, settings)

Svc_classify_and_verify(text, settings) ==
  Respond(SvcClassifyLocals(text, settings), text)

(***************************************************************************)
(* The state machine: a process configured with thresholds receives a text  *)
(* and applies one of the functions to it.                                  *)
(***************************************************************************)
\* text: the input; settings: the configured thresholds; call: the function
\* applied ("none" before the call); ret: what it returned; frame: the local
\* variables of classify_and_verify at its return, or the doc_type argument
\* of calculate_scoring; score: the local score of calculate_scoring, which
\* it returns
VARIABLES text, settings, call, ret, frame, score
vars == <<text, settings, call, ret, frame, score>>

\* pieces of OCR text; an input text is a concatenation of pieces
FragMyAadhaarIs ==
  <<"M", "y", " ", "A", "a", "d", "h", "a", "a", "r", " ", "i", "s", " ">>
FragAadhaarSpaced ==
  <<"1", "2", "3", "4", " ", "5", "6", "7", "8", " ", "9", "0", "1", "2">>
FragAadhaarJoined ==
  <<"1", "2", "3", "4", "5", "6", "7", "8", "9", "0", "1", "2">>
FragPan ==
  <<"A", "B", "C", "D", "E", "1", "2", "3", "4", "F">>
FragPanNoLetter ==
  <<"A", "B", "C", "D", "E", "1", "2", "3", "4", "5">>
FragPanLower ==
  <<"a", "b", "c", "d", "e", "1", "2", "3", "4", "f">>
FragPanCard ==
  <<"I", "n", "c", "o", "m", "e", " ", "T", "a", "x", " ", "D", "e", "p", "a", "r", "t", "m", "e", "n", "t", " ", "G", "O", "V", "T", " ", "O", "F", " ", "I", "N", "D", "I", "A", " ", "P", "e", "r", "m", "a", "n", "e", "n", "t", " ", "A", "c", "c", "o", "u", "n", "t", " ", "N", "u", "m", "b", "e", "r", " ", "A", "B", "C", "D", "E", "1", "2", "3", "4", "F">>
FragRegionalTransport ==
  <<"R", "e", "g", "i", "o", "n", "a", "l", " ", "T", "r", "a", "n", "s", "p", "o", "r", "t", " ">>
FragMotorDriving ==
  <<"M", "o", "t", "o", "r", " ", "D", "r", "i", "v", "i", "n", "g">>
FragRandom ==
  <<"R", "a", "n", "d", "o", "m", " ", "t", "e", "x", "t", " ", "w", "i", "t", "h", " ", "n", "o", " ", "I", "D", "s">>
FragDlNumber ==
  <<"D", "L", "-", "0", "4", "2", "0", "1", "1", "0", "0", "1", "2", "3", "4", "5">>
FragStateNumber ==
  <<"K", "A", "0", "1", " ", "2", "0", "1", "1", "0", "0", "1", "2", "3", "4", "5">>
FragValidTill ==
  <<"V", "a", "l", "i", "d", " ", "T", "i", "l", "l", " ">>
FragDateOfBirth ==
  <<"D", "a", "t", "e", " ", "o", "f", " ", "B", "i", "r", "t", "h", " ">>
FragDrivingLicence ==
  <<"D", "r", "i", "v", "i", "n", "g", " ", "L", "i", "c", "e", "n", "c", "e", " ">>

Fragments ==
  {FragMyAadhaarIs,
   FragAadhaarSpaced,
   FragAadhaarJoined,
   FragPan,
   FragPanNoLetter,
   FragPanLower,
   FragPanCard,
   FragRegionalTransport,
   FragMotorDriving,
   FragRandom,
   FragDlNumber,
   FragStateNumber,
   FragValidTill,
   FragDateOfBirth,
   FragDrivingLicence}

\* the greatest number of pieces of an input text
MaxFrags == 2

RECURSIVE TextsUpTo(_)
TextsUpTo(n) ==
  IF n = 0 THEN {<<>>}
  ELSE LET shorter == TextsUpTo(n - 1)
       IN shorter \cup {s \o f : s \in shorter, f \in Fragments}

Texts == TextsUpTo(MaxFrags)

\* threshold settings: the defaults, a wide middle band, LOW above HIGH, and
\* LOW set to the float 0.6000000000000001 (the sum 0.4 + 0.2)
SettingsChoices ==
  {DefaultSettings,
   [CONFIDENCE_THRESHOLD_HIGH |-> FLit(97, 100), CONFIDENCE_THRESHOLD_LOW |-> FLit(4, 10)],
   [CONFIDENCE_THRESHOLD_HIGH |-> FLit(5, 10), CONFIDENCE_THRESHOLD_LOW |-> FLit(9, 10)],
   [CONFIDENCE_THRESHOLD_HIGH |-> F_0_85, CONFIDENCE_THRESHOLD_LOW |-> FAdd(F_0_4, F_0_2)]}

Init ==
  /\ text \in Texts
  /\ settings \in SettingsChoices
  /\ call = "none"
  /\ ret = None
  /\ frame = None
  /\ score = F_0_0

ClassifyAndVerify ==
  /\ call = "none"
  /\ call' = "classify_and_verify"
  /\ frame' = ClassifyLocals(text, settings)
  /\ ret' = Respond(frame', text)
  /\ UNCHANGED <<text, settings, score>>

Next == ClassifyAndVerify

\* requests to classify_and_verify of app/services/classification_service.py
Spec == Init /\ [][Next]_vars

SvcClassifyAndVerify ==
  /\ call = "none"
  /\ call' = "ocr-service classify_and_verify"
  /\ frame' = SvcClassifyLocals(text, settings)
  /\ ret' = Respond(frame', text)
  /\ UNCHANGED <<text, settings, score>>

SvcNext == SvcClassifyAndVerify

\* requests to classify_and_verify of services/ocr-service
SvcSpec == Init /\ [][SvcNext]_vars

MatcherInit ==
  /\ text \in Texts
  /\ settings = DefaultSettings
  /\ call = "none"
  /\ ret = None
  /\ frame = None
  /\ score = F_0_0

ValidateAadhaar ==
  /\ call = "none"
  /\ call' = "validate_aadhaar"
  /\ ret' = validate_aadhaar(text)
  /\ UNCHANGED <<text, settings, frame, score>>

ValidatePan ==
  /\ call = "none"
  /\ call' = "validate_pan"
  /\ ret' = validate_pan(text)
  /\ UNCHANGED <<text, settings, frame, score>>

ValidateDl ==
  /\ call = "none"
  /\ call' = "validate_dl"
  /\ ret' = validate_dl(text)
  /\ UNCHANGED <<text, settings, frame, score>>

CalculateScoring(doc_type) ==
  /\ call = "none"
  /\ call' = "calculate_scoring"
  /\ frame' = [doc_type |-> doc_type]
  /\ score' = calculate_scoring(text, doc_type)
  /\ UNCHANGED <<text, settings, ret>>

MatcherNext ==
  \/ ValidateAadhaar
  \/ ValidatePan
  \/ ValidateDl
  \/ \E doc_type \in DocumentType : CalculateScoring(doc_type)

\* calls of the matchers and of the keyword scorer
MatcherSpec == MatcherInit /\ [][MatcherNext]_vars

(***************************************************************************)
(* Properties of classify_and_verify (Spec).                                *)
(***************************************************************************)
\* found_keywords of calculate_scoring(text, doc_type): how many keyword
\* patterns of doc_type match the lower-cased input text
KeywordHits(doc_type) ==
  CountKeywords(KEYWORD_PATTERNS(doc_type), LowerText(text))

\* C1: the confidence_score returned by classify_and_verify is at most 0.99
\* and at least 0.0 for every input (so the response is always built), and
\* it is exactly 0.0 when the detected type is UNKNOWN.
C1_ScoreWithinCeiling ==
  call = "classify_and_verify" =>
    /\ ret.raised = None
    /\ ret.detected_document_type \in DocumentType
    /\ FGe(ret.confidence_score, F_0_0)
    /\ FLe(ret.confidence_score, F_0_99)
    /\ FLt(ret.confidence_score, F_1_0)
    /\ (ret.detected_document_type = UNKNOWN => ret.confidence_score = F_0_0)

\* a matcher at base 1.0 with two or more keyword hits: the blend and the
\* boost exceed 1, and the reported score is the ceiling 0.99
C1_Witness ==
  /\ call = "classify_and_verify"
  /\ frame.base_confidence = F_1_0
  /\ FGt(frame.keyword_score, F_0_4)
  /\ FGt(FAdd(FAdd(FMul(frame.base_confidence, F_0_6), frame.keyword_score), F_0_2),
         F_1_0)
  /\ ret.raised = None
  /\ ret.confidence_score = F_0_99

\* C2: on a text (the empty one included) on which none of the three
\* matchers fires and no keyword pattern of any type hits, classify_and_verify
\* returns UNKNOWN, REJECTED, a confidence_score of 0.0, no id_number, and the
\* reason "Could not identify document type. No supported ID keywords or
\* patterns found."
C2_UnknownRejection ==
  (/\ call = "classify_and_verify"
   /\ ~validate_aadhaar(text)[1]
   /\ ~validate_pan(text)[1]
   /\ ~validate_dl(text)[1]
   /\ \A d \in {AADHAAR, PAN, DRIVING_LICENCE} : KeywordHits(d) = 0)
  => /\ ret.raised = None
     /\ ret.detected_document_type = UNKNOWN
     /\ ret.status = REJECTED
     /\ ret.confidence_score = F_0_0
     /\ ret.extracted_fields = ExtractedFields(None)
     /\ ret.failure_reason = UnknownReason

\* the text "Random text with no IDs" is rejected as UNKNOWN
C2_Witness ==
  /\ call = "classify_and_verify"
  /\ text = FragRandom
  /\ frame.candidates = <<>>
  /\ \A d \in {AADHAAR, PAN, DRIVING_LICENCE} : KeywordHits(d) = 0
  /\ ret.detected_document_type = UNKNOWN
  /\ ret.status = REJECTED
  /\ ret.failure_reason = UnknownReason

\* C3: in every result of classify_and_verify, failure_reason is non-null
\* if and only if the status is REJECTED.
C3_ReasonIffRejected ==
  call = "classify_and_verify" =>
    /\ ret.raised = None
    /\ ret.status \in {VERIFIED, REJECTED}
    /\ (ret.failure_reason # None) <=> (ret.status = REJECTED)

\* a detected type rejected for a score below CONFIDENCE_THRESHOLD_LOW
\* carries a reason
C3_Witness ==
  /\ call = "classify_and_verify"
  /\ ret.detected_document_type # UNKNOWN
  /\ FLt(frame.final_score, settings.CONFIDENCE_THRESHOLD_LOW)
  /\ ret.status = REJECTED
  /\ ret.failure_reason # None

\* C4: for a detected type other than UNKNOWN and thresholds with
\* LOW <= HIGH, the result is VERIFIED (without a reason) whenever the final
\* score is >= CONFIDENCE_THRESHOLD_LOW, and REJECTED only when it is below
\* LOW, with the reason "Confidence score (<the score rounded to two
\* decimals>) too low for <type>. Validation failed."
C4_RejectOnlyBelowLow ==
  (/\ call = "classify_and_verify"
   /\ frame.detected_type # UNKNOWN
   /\ FLe(settings.CONFIDENCE_THRESHOLD_LOW, settings.CONFIDENCE_THRESHOLD_HIGH))
  => /\ ret.raised = None
     /\ IF FGe(frame.final_score, settings.CONFIDENCE_THRESHOLD_LOW)
        THEN ret.status = VERIFIED /\ ret.failure_reason = None
        ELSE /\ ret.status = REJECTED
             /\ ret.failure_reason =
                  <<"Confidence score (", ReprRounded(ret.confidence_score),
                    ") too low for ", ret.detected_document_type,
                    ". Validation failed.">>

\* a final score in the band [LOW, HIGH) is verified
C4_Witness ==
  /\ call = "classify_and_verify"
  /\ frame.detected_type # UNKNOWN
  /\ FLe(settings.CONFIDENCE_THRESHOLD_LOW, settings.CONFIDENCE_THRESHOLD_HIGH)
  /\ FGe(frame.final_score, settings.CONFIDENCE_THRESHOLD_LOW)
  /\ FLt(frame.final_score, settings.CONFIDENCE_THRESHOLD_HIGH)
  /\ ret.status = VERIFIED
  /\ ret.failure_reason = None

\* C5: for the text "Income Tax Department GOVT OF INDIA Permanent Account
\* Number ABCDE1234F" only the PAN matcher fires and at least two PAN keyword
\* patterns hit; the result is VERIFIED, of type PAN, with id_number
\* "ABCDE1234F" and a confidence_score of 0.99 (>= 0.85).
C5_PanCardVerified ==
  (call = "classify_and_verify" /\ text = FragPanCard)
  => /\ frame.candidates = << <<PAN, FragPan, F_1_0>> >>
     /\ KeywordHits(PAN) >= 2
     /\ ret.raised = None
     /\ ret.status = VERIFIED
     /\ ret.detected_document_type = PAN
     /\ ret.extracted_fields = [id_number |-> FragPan]
     /\ FGe(ret.confidence_score, F_0_85)
     /\ ret.confidence_score = F_0_99

\* the PAN card text under the default thresholds
C5_Witness ==
  /\ call = "classify_and_verify"
  /\ text = FragPanCard
  /\ settings = DefaultSettings
  /\ ret.status = VERIFIED
  /\ ret.detected_document_type = PAN

\* C10: on a text on which exactly two DL keyword indicators hit and that
\* holds no licence-number pattern, no Aadhaar pattern and no PAN pattern,
\* validate_dl returns (True, None, 0.6), and classify_and_verify returns the
\* type DRIVING_LICENCE with no id_number in extracted_fields.
C10_DlKeywordsOnly ==
  (/\ call = "classify_and_verify"
   /\ DlIndicatorHits(LowerText(text)) = 2
   /\ ~Search(DL_PATTERN_IGNORECASE, text).found
   /\ ~Search(AADHAAR_PATTERN, text).found
   /\ ~Search(PAN_PATTERN, text).found)
  => /\ frame.candidates = << <<DRIVING_LICENCE, None, F_0_6>> >>
     /\ ret.raised = None
     /\ ret.detected_document_type = DRIVING_LICENCE
     /\ ret.extracted_fields = ExtractedFields(None)

\* the text "Regional Transport Motor Driving"
C10_Witness ==
  /\ call = "classify_and_verify"
  /\ text = FragRegionalTransport \o FragMotorDriving
  /\ DlIndicatorHits(LowerText(text)) = 2
  /\ frame.candidates = << <<DRIVING_LICENCE, None, F_0_6>> >>
  /\ ret.detected_document_type = DRIVING_LICENCE

\* total_score of a candidate c = (doc_type, number, base_score) on the
\* input text
TotalOf(c) ==
  FAdd(FMul(c[3], F_0_6), FMul(calculate_scoring(text, c[1]), F_0_4))

\* the totals of the candidates, in the order of the candidate list
CandidateTotals ==
  [j \in 1..Len(frame.candidates) |-> TotalOf(frame.candidates[j])] \o <<>>

\* what the identifier matcher of doc_type returns on the input text
MatcherResult(doc_type) ==
  CASE doc_type = AADHAAR -> validate_aadhaar(text)
    [] doc_type = PAN -> validate_pan(text)
    [] doc_type = DRIVING_LICENCE -> validate_dl(text)
    [] OTHER -> <<FALSE, None, F_0_0>>

\* C11: when more than one matcher fired, the adopted type, identifier and
\* base_confidence are those of one candidate; no candidate has a greater
\* total = base*0.6 + keyword_score*0.4, and every candidate before it in
\* the order Aadhaar, PAN, DL has a strictly smaller total; the
\* base_confidence carried on is the score the type's matcher returned.
C11_HighestTotalFirstOnTie ==
  (call = "classify_and_verify" /\ Len(frame.candidates) > 1)
  => LET totals == CandidateTotals
         own == MatcherResult(frame.detected_type)
     IN \E i \in 1..Len(frame.candidates) :
          /\ frame.detected_type = frame.candidates[i][1]
          /\ frame.id_number = frame.candidates[i][2]
          /\ frame.base_confidence = frame.candidates[i][3]
          /\ frame.base_confidence = own[3]
          /\ \A j \in 1..Len(frame.candidates) : FLe(totals[j], totals[i])
          /\ \A j \in 1..(i - 1) : FLt(totals[j], totals[i])

\* two candidates with the same total: the earlier one is adopted, with its
\* matcher score (not its total) as base_confidence
C11_Witness ==
  /\ call = "classify_and_verify"
  /\ Len(frame.candidates) = 2
  /\ CandidateTotals[1] = CandidateTotals[2]
  /\ frame.detected_type = frame.candidates[1][1]
  /\ frame.detected_type # frame.candidates[2][1]
  /\ frame.base_confidence = F_1_0
  /\ CandidateTotals[1] # F_1_0

\* the keyword scores of the three types on the input text, in the order
\* Aadhaar, PAN, DL
FallbackScores ==
  <<calculate_scoring(text, AADHAAR), calculate_scoring(text, PAN),
    calculate_scoring(text, DRIVING_LICENCE)>>

\* C12: when no matcher fired, the detected type stays UNKNOWN if the keyword
\* scores of the three types are all 0; otherwise it is a type whose score
\* is the greatest of the three and strictly above the score of every type
\* before it in the order Aadhaar, PAN, DL, with base_confidence 0.0 and no
\* identifier.
C12_FallbackBestKeywordType ==
  (call = "classify_and_verify" /\ frame.candidates = <<>>)
  => LET scores == FallbackScores
     IN /\ frame.base_confidence = F_0_0
        /\ frame.id_number = None
        /\ ret.extracted_fields = <<>>
        /\ IF \A i \in 1..3 : scores[i] = F_0_0
           THEN frame.detected_type = UNKNOWN
           ELSE \E i \in 1..3 :
                  /\ frame.detected_type = FallbackOrder[i]
                  /\ FGt(scores[i], F_0_0)
                  /\ \A j \in 1..3 : FLe(scores[j], scores[i])
                  /\ \A j \in 1..(i - 1) : FLt(scores[j], scores[i])

\* no matcher fired and Aadhaar and PAN share the greatest keyword score,
\* above 0: Aadhaar is adopted
C12_Witness ==
  /\ call = "classify_and_verify"
  /\ frame.candidates = <<>>
  /\ FGt(FallbackScores[1], F_0_0)
  /\ FallbackScores[1] = FallbackScores[2]
  /\ FLe(FallbackScores[3], FallbackScores[1])
  /\ frame.detected_type = AADHAAR
  /\ frame.base_confidence = F_0_0
  /\ ret.extracted_fields = <<>>

C15_StatusAgreesWithReportedScore ==
  (/\ call = "classify_and_verify"
   /\ frame.detected_type # UNKNOWN
   /\ FLe(settings.CONFIDENCE_THRESHOLD_LOW, settings.CONFIDENCE_THRESHOLD_HIGH))
  => /\ FGe(ret.confidence_score, settings.CONFIDENCE_THRESHOLD_LOW)
          => ret.status = VERIFIED
     /\ FLt(ret.confidence_score, settings.CONFIDENCE_THRESHOLD_LOW)
          => ret.status = REJECTED

\* C16: when a matcher fired, the adopted type, identifier and
\* base_confidence are those of a candidate (the keyword fallback did not
\* replace them) and the matcher of the detected type fired;
\* extracted_fields is either empty or holds as id_number the identifier
\* that the matcher of the detected type returned, and it is empty whenever
\* no matcher fired or that matcher returned no identifier, whatever the
\* status.
C16_IdNumberOfDetectedTypeOnly ==
  (call = "classify_and_verify")
  => LET own == MatcherResult(frame.detected_type)
     IN /\ frame.candidates # <<>>
             => /\ \E i \in 1..Len(frame.candidates) :
                     frame.candidates[i]
                       = <<frame.detected_type, frame.id_number, frame.base_confidence>>
                /\ own[1]
        /\ ret.extracted_fields # <<>>
             => /\ own[1]
                /\ own[2] # None
                /\ ret.extracted_fields = [id_number |-> own[2]]
        /\ (frame.candidates = <<>> \/ own[2] = None)
             => ret.extracted_fields = <<>>

\* several matchers fired and the candidate of the DL keyword-only rule was
\* adopted: the result is VERIFIED and has no id_number, although the first
\* candidate carries an identifier
C16_Witness ==
  /\ call = "classify_and_verify"
  /\ Len(frame.candidates) > 1
  /\ frame.candidates[1][2] # None
  /\ frame.detected_type = DRIVING_LICENCE
  /\ MatcherResult(DRIVING_LICENCE) = <<TRUE, None, F_0_6>>
  /\ ret.status = VERIFIED
  /\ ret.extracted_fields = <<>>

(***************************************************************************)
(* Property of the second copy of classify_and_verify (SvcSpec).            *)
(***************************************************************************)
\* C6: no matcher short-circuits the others: on a text on which both the
\* Aadhaar matcher and the PAN matcher fire, at least one PAN keyword
\* pattern hits and no Aadhaar keyword pattern hits, classify_and_verify
\* detects PAN, with the PAN substring as id_number.
C6_PanSelectedOverAadhaar ==
  (/\ call = "ocr-service classify_and_verify"
   /\ validate_aadhaar(text)[1]
   /\ validate_pan(text)[1]
   /\ KeywordHits(PAN) >= 1
   /\ KeywordHits(AADHAAR) = 0)
  => /\ ret.raised = None
     /\ ret.detected_document_type = PAN
     /\ ret.extracted_fields = [id_number |-> validate_pan(text)[2]]

(***************************************************************************)
(* Properties of the matchers and of the keyword scorer (MatcherSpec).      *)
(***************************************************************************)
\* the characters of t outside positions i .. i+n-1 hold no digit
NoDigitsOutside(t, i, n) ==
  \A j \in 1..Len(t) : (j < i \/ j >= i + n) => t[j] \notin Digits

\* DDDD DDDD DDDD (single spaces) at position i of t
SpacedRunAt(t, i) ==
  /\ i + 13 <= Len(t)
  /\ \A k \in 0..13 : IF k \in {4, 9} THEN t[i + k] = " " ELSE t[i + k] \in Digits

\* twelve digits in a row at position i of t
JoinedRunAt(t, i) ==
  /\ i + 11 <= Len(t)
  /\ \A k \in 0..11 : t[i + k] \in Digits

\* C7: validate_aadhaar accepts the spaced grouping and rejects the joined
\* one: for a text whose only digit run is DDDD DDDD DDDD it returns (True,
\* that substring with its spaces, 1.0); for a text whose only digit run is
\* twelve digits without spaces it returns matched = False.
C7_SpacedAcceptedJoinedRejected ==
  call = "validate_aadhaar" =>
    \A i \in 1..Len(text) :
      /\ (SpacedRunAt(text, i) /\ NoDigitsOutside(text, i, 14))
           => ret = <<TRUE, SubSeq(text, i, i + 13), F_1_0>>
      /\ (JoinedRunAt(text, i) /\ NoDigitsOutside(text, i, 12))
           => ret[1] = FALSE

\* 5 uppercase letters, 4 digits, 1 uppercase letter at position i of t
PanShapeAt(t, i) ==
  /\ i + 9 <= Len(t)
  /\ \A k \in 0..9 :
       IF k \in 5..8 THEN t[i + k] \in Digits ELSE t[i + k] \in Upper

\* C8: validate_pan returns (True, s, 1.0) for a text containing a substring
\* of 5 uppercase letters, 4 digits and 1 uppercase letter, s being the
\* first such substring, and (False, None, 0.0) for a text without one.
C8_PanExactShape ==
  call = "validate_pan" =>
    IF \E i \in 1..Len(text) : PanShapeAt(text, i)
    THEN LET first == CHOOSE i \in 1..Len(text) :
                        /\ PanShapeAt(text, i)
                        /\ \A j \in 1..(i - 1) : ~PanShapeAt(text, j)
         IN ret = <<TRUE, SubSeq(text, first, first + 9), F_1_0>>
    ELSE ret = <<FALSE, None, F_0_0>>

\* a PAN found in the middle of a text that also holds a PAN-like run
\* without the trailing letter
C8_Witness ==
  /\ call = "validate_pan"
  /\ ~PanShapeAt(text, 1)
  /\ Contains(text, FragPanNoLetter)
  /\ ret = <<TRUE, FragPan, F_1_0>>

\* the float next above 0.6: the float sum 0.4 + 0.2 (0.6000000000000001)
AboveSixTenths == [m |-> BAdd(F_0_6.m, <<1>>), e |-> F_0_6.e]

\* C9 as amended: calculate_scoring is a saturating step function of the
\* number n of the type's keyword patterns that match the lower-cased text:
\* 0.0 for n = 0, 0.4 for n = 1, and for every n >= 2 the float sum
\* 0.4 + 0.2, which is 0.6000000000000001 (0.6 once rounded to two
\* decimals) and not the float 0.6; it is never more than that and at least
\* 0.4 whenever a keyword hits.
C9_SaturatingStep ==
  call = "calculate_scoring" =>
    LET n == KeywordHits(frame.doc_type)
    IN /\ n = 0 => score = F_0_0
       /\ n = 1 => score = F_0_4
       /\ n >= 2 => /\ score = AboveSixTenths
                    /\ FGt(score, F_0_6)
                    /\ FRound2(score) = F_0_6
       /\ n >= 1 => FGe(score, F_0_4)
       /\ FLe(score, AboveSixTenths)

\* three keyword patterns hit and the score is that of two
C9_Witness ==
  /\ call = "calculate_scoring"
  /\ KeywordHits(frame.doc_type) >= 3
  /\ score = AboveSixTenths

\* C9 as stated: calculate_scoring returns 0.0 for n = 0, 0.4 for n = 1 and
\* 0.6 for every n >= 2, never more than 0.6.
C9_Original ==
  call = "calculate_scoring" =>
    LET n == KeywordHits(frame.doc_type)
    IN /\ score = (IF n = 0 THEN F_0_0 ELSE IF n = 1 THEN F_0_4 ELSE F_0_6)
       /\ FLe(score, F_0_6)

\* C14: validate_dl returns, by the first rule that applies: with a match of
\* the number pattern, the matched token as identifier and 0.95 if at least
\* one keyword indicator hits, else 0.85 if the lower-cased text holds one
\* of the words driving, license, licence, transport, vehicle, dl, else
\* 0.70; without such a match, (True, None, 0.60) if at least two keyword
\* indicators hit and (False, None, 0.0) otherwise.
C14_DlDecisionTable ==
  (call = "validate_dl")
  => LET text_lower == LowerText(text)
         hits == DlIndicatorHits(text_lower)
         numeric == Search(DL_PATTERN_IGNORECASE, text)
         context == \E w \in {<<"d", "r", "i", "v", "i", "n", "g">>,
                              <<"l", "i", "c", "e", "n", "s", "e">>,
                              <<"l", "i", "c", "e", "n", "c", "e">>,
                              <<"t", "r", "a", "n", "s", "p", "o", "r", "t">>,
                              <<"v", "e", "h", "i", "c", "l", "e">>,
                              <<"d", "l">>} : Contains(text_lower, w)
     IN ret = CASE numeric.found /\ hits >= 1 -> <<TRUE, numeric.text, FLit(95, 100)>>
                [] numeric.found /\ hits = 0 /\ context -> <<TRUE, numeric.text, FLit(85, 100)>>
                [] numeric.found /\ hits = 0 /\ ~context -> <<TRUE, numeric.text, FLit(70, 100)>>
                [] ~numeric.found /\ hits >= 2 -> <<TRUE, None, FLit(60, 100)>>
                [] OTHER -> <<FALSE, None, FLit(0, 100)>>

\* exactly one keyword indicator hits and there is no licence number: no
\* match
C14_Witness ==
  /\ call = "validate_dl"
  /\ DlIndicatorHits(LowerText(text)) = 1
  /\ ~Search(DL_PATTERN_IGNORECASE, text).found
  /\ ret = <<FALSE, None, F_0_0>>
====
